---- MODULE Spec2Model ----
(***************************************************************************)
(* E-Stop USB (src/code.py): a polling loop that samples the E-Stop button *)
(* and the key cylinder, emulates a key on a USB keyboard while the stop   *)
(* is triggered and drives the start and ready LEDs.                       *)
(*                                                                         *)
(* Time is counted in ticks, TicksPerSecond ticks to the second.  One step *)
(* of the model is one pass of the while loop of main(), its sleep         *)
(* included, so every state is a loop-iteration boundary.                  *)
(***************************************************************************)
EXTENDS Integers, Sequences, FiniteSets, TLC

\* ---------------------------------------------------------------- bounds
\* Resolution of the modelled clock.
TicksPerSecond == 4
\* The clock is followed up to MaxTime ticks under the settings of the
\* source file, and up to MaxTimeOther ticks under every other combination
\* of the three boolean settings.
MaxTime == 21
MaxTimeOther == 5
\* Largest advance of the clock during one pass of the loop, its
\* time.sleep(0.01) included.  A pass lasts far less than a tick, so the
\* advance may be 0, and it happens at one point of the pass: between two
\* successive readings of time.monotonic() or during the sleep.
MaxStep == 1
\* The passes and the key presses of an active period are counted up to
\* these values.
PassCap == 3
PressCap == 2

\* ------------------------------------------------------------- settings
\* DELAY = 5 seconds
DELAY == 5 * TicksPerSecond
\* DWELL = 0.25 seconds
DWELL == TicksPerSecond \div 4
\* FLASHTIME = 0.25 seconds
FLASHTIME == TicksPerSecond \div 4
\* The value -100 (seconds) the three timestamps of State start with, and
\* timeLastKeypress is reset to on entry to the active state.
Sentinel == (0 - 100) * TicksPerSecond
\* KEYCODE = Keycode.ESCAPE
KEYCODE == "ESCAPE"

VARIABLES
    DISABLE_KEYCYL,      \* setting: ignore the key cylinder
    DISABLE_LEDS,        \* setting: all lights disabled
    FLASHING_LEDS_ONLY,  \* setting: lights only while flashing
    clock,               \* time.monotonic(), in ticks
    pins,                \* levels of ESTOP, KEYCYL, LED_START, LED_READY
    state,               \* the State object
    keyboard,            \* the Keyboard object: the set of keys held down
    last,                \* what the last pass of the loop did (history)
    period               \* history of the current active period: passes made
                         \* since it began (0 when inactive) and key presses
                         \* sent in it, both counted up to a cap

vars == <<DISABLE_KEYCYL, DISABLE_LEDS, FLASHING_LEDS_ONLY, clock, pins,
          state, keyboard, last, period>>

\* The settings as the source file has them (lines 54, 57, 60).
SourceSettings ==
    DISABLE_KEYCYL /\ ~DISABLE_LEDS /\ ~FLASHING_LEDS_ONLY

\* How far the clock is followed.
Horizon == IF SourceSettings THEN MaxTime ELSE MaxTimeOther

\* No reading of the clock was made.
NoRead == 0 - 1

\* The program's objects as one value, threaded through the functions, with
\* the calls made to the keyboard and to the LED driver during this pass.
Machine ==
    [pins |-> pins, state |-> state, keyboard |-> keyboard,
     calls |-> <<>>, leds |-> <<>>]

\* ------------------------------------------------------------ class Pins
Pins_init ==
    [ESTOP |-> FALSE, KEYCYL |-> FALSE,
     LED_START |-> ~(DISABLE_LEDS \/ FLASHING_LEDS_ONLY),
     LED_READY |-> ~(DISABLE_LEDS \/ FLASHING_LEDS_ONLY)]

togglePin_noDisable(value) ==
    ~value

togglePin(value) ==
    IF DISABLE_LEDS
    THEN FALSE
    ELSE (value /= TRUE)

setPin_noFlashingOnly(value, st) ==
    IF DISABLE_LEDS
    THEN FALSE
    ELSE st

setPin(value, st) ==
    IF DISABLE_LEDS \/ FLASHING_LEDS_ONLY
    THEN FALSE
    ELSE st

\* pins.togglePin(pin) and pins.setPin(pin, state) applied to the machine;
\* each call is recorded with the level before and after it.
doToggle(m, pin) ==
    [m EXCEPT !.pins[pin] = togglePin(@),
              !.leds = Append(@, [pin |-> pin, op |-> "toggle", arg |-> FALSE,
                                  before |-> m.pins[pin],
                                  after |-> togglePin(m.pins[pin])])]

doSet(m, pin, st) ==
    [m EXCEPT !.pins[pin] = setPin(@, st),
              !.leds = Append(@, [pin |-> pin, op |-> "set", arg |-> st,
                                  before |-> m.pins[pin],
                                  after |-> setPin(m.pins[pin], st)])]

\* ----------------------------------------------------------- class State
State_init ==
    [active |-> FALSE, keyDown |-> FALSE, timeActivated |-> Sentinel,
     timeLastFlashed |-> Sentinel, timeLastKeypress |-> Sentinel]

\* ------------------------------------------------------------ functions
checkStops_cylinderOnly(estop, keycyl) ==
    IF estop /\ keycyl
    THEN FALSE
    ELSE TRUE

checkStops(estop, keycyl) ==
    IF estop /\ (keycyl \/ DISABLE_KEYCYL)
    THEN FALSE
    ELSE TRUE

\* t is the value time.monotonic() returns at line 268.
sendKeyPress_noLed(m, t) ==
    LET m1 == [m EXCEPT !.keyboard = @ \cup {KEYCODE},
                        !.calls = Append(@, "press")]
    IN  [m1 EXCEPT !.state.keyDown = TRUE,
                   !.state.timeLastKeypress = t]

sendKeyPress_noKeyDown(m, t) ==
    LET m1 == [m EXCEPT !.keyboard = @ \cup {KEYCODE},
                        !.calls = Append(@, "press")]
        m2 == doSet(m1, "LED_START", FALSE)
    IN  [m2 EXCEPT !.state.timeLastKeypress = t]

sendKeyPress(m, t) ==
    LET m1 == [m EXCEPT !.keyboard = @ \cup {KEYCODE},
                        !.calls = Append(@, "press")]
        m2 == doSet(m1, "LED_START", FALSE)
    IN  [m2 EXCEPT !.state.keyDown = TRUE,
                   !.state.timeLastKeypress = t]

releaseKeyPress_keepsKeyDown(m) ==
    LET m1 == [m EXCEPT !.keyboard = {},
                        !.calls = Append(@, "release_all")]
    IN  doSet(m1, "LED_START", TRUE)

releaseKeyPress(m) ==
    LET m1 == [m EXCEPT !.keyboard = {},
                        !.calls = Append(@, "release_all"),
                        !.state.keyDown = FALSE]
    IN  doSet(m1, "LED_START", TRUE)

\* ----------------------------------------------------------------- main
\* Line 190: is it time to release the key?  t is time.monotonic() there.
dwellOver_strict(m, t) ==
    t - m.state.timeLastKeypress > DWELL

dwellOver(m, t) ==
    t - m.state.timeLastKeypress >= DWELL

\* Line 197: has DELAY passed since the last sent keypress?
repeatDue_strict(m, t) ==
    t - m.state.timeLastKeypress > DELAY

repeatDue(m, t) ==
    t - m.state.timeLastKeypress >= DELAY

\* Line 202: is it time to toggle the ready LED?
flashDue_strict(m, t) ==
    t - m.state.timeLastFlashed > FLASHTIME

flashDue(m, t) ==
    t - m.state.timeLastFlashed >= FLASHTIME

\* Lines 183-205: triggered and already active.  tKey, tPress, tFlash and
\* tStamp are the values time.monotonic() returns at lines 190/197, 268, 202
\* and 205.
mainActive(m, tKey, tPress, tFlash, tStamp) ==
    LET mk == IF m.state.keyDown
              THEN IF dwellOver(m, tKey) THEN releaseKeyPress(m) ELSE m
              ELSE IF repeatDue(m, tKey) THEN sendKeyPress(m, tPress) ELSE m
    IN  IF flashDue(mk, tFlash)
        THEN [doToggle(mk, "LED_READY") EXCEPT !.state.timeLastFlashed = tStamp]
        ELSE mk

\* Lines 207-213: triggered and not yet active.  t is time.monotonic() at
\* line 210.
mainActivate_noReset(m, t) ==
    [m EXCEPT !.state.active = TRUE,
              !.state.timeActivated = t]

mainActivate_resetFlash(m, t) ==
    [m EXCEPT !.state.active = TRUE,
              !.state.timeActivated = t,
              !.state.timeLastFlashed = Sentinel,
              !.state.timeLastKeypress = Sentinel]

mainActivate_press(m, t) ==
    sendKeyPress([m EXCEPT !.state.active = TRUE,
                           !.state.timeActivated = t,
                           !.state.timeLastKeypress = Sentinel], t)

mainActivate(m, t) ==
    [m EXCEPT !.state.active = TRUE,
              !.state.timeActivated = t,
              !.state.timeLastKeypress = Sentinel]

\* Lines 219-224: not triggered and still active.
mainDeactivate_noRelease(m) ==
    LET m1 == [m EXCEPT !.state.active = FALSE]
        m2 == doSet(m1, "LED_READY", TRUE)
    IN  doSet(m2, "LED_START", FALSE)

mainDeactivate_noReady(m) ==
    LET m1 == [m EXCEPT !.state.active = FALSE]
        m3 == doSet(m1, "LED_START", FALSE)
    IN  releaseKeyPress(m3)

mainDeactivate(m) ==
    LET m1 == [m EXCEPT !.state.active = FALSE]
        m2 == doSet(m1, "LED_READY", TRUE)
        m3 == doSet(m2, "LED_START", FALSE)
    IN  releaseKeyPress(m3)

\* Number of calls of keyboard.press among the calls of a pass.
Presses(calls) ==
    Cardinality({i \in 1 .. Len(calls) : calls[i] = "press"})

Min(a, b) == IF a <= b THEN a ELSE b

\* The end of a pass: the objects take the values the pass computed, the
\* inputs keep the levels e, k that were sampled, and the clock has reached
\* t when time.sleep(0.01) returns.  The first reading of the clock in a
\* pass returns the value of clock at the start of the pass.  keyElapsed and
\* flashElapsed are the differences compared at lines 190/197 and 202.
Finish(m, e, k, keyElapsed, flashElapsed, t) ==
    /\ t <= Horizon
    /\ clock' = t
    /\ pins' = [m.pins EXCEPT !.ESTOP = e, !.KEYCYL = k]
    /\ state' = m.state
    /\ keyboard' = m.keyboard
    /\ last' = [triggered |-> checkStops(e, k),
                wasActive |-> state.active,
                wasKeyDown |-> state.keyDown,
                calls |-> m.calls,
                leds |-> m.leds,
                keyElapsed |-> keyElapsed,
                flashElapsed |-> flashElapsed]
    /\ period' =
          IF checkStops(e, k)
          THEN IF state.active
               THEN [passes |-> Min(period.passes + 1, PassCap),
                     presses |-> Min(period.presses + Presses(m.calls),
                                     PressCap)]
               ELSE [passes |-> 1, presses |-> 0]
          ELSE IF state.active
               THEN [passes |-> 0, presses |-> period.presses]
               ELSE [passes |-> 0, presses |-> 0]
    /\ UNCHANGED <<DISABLE_KEYCYL, DISABLE_LEDS, FLASHING_LEDS_ONLY>>

\* The advances of the clock during a pass, and the points of a pass where
\* the clock may advance: 1 between the readings of lines 190/197 and 268,
\* 2 between those of lines 268 and 202, 3 between those of lines 202 and
\* 205, 4 after the last reading (the sleep).
Step == 0 .. MaxStep
Points == 1 .. 4
At(p, q, a) == IF p = q THEN a ELSE 0

\* One pass of the loop with the inputs at levels e and k: lines 179-205.
LoopActive ==
    \E e, k \in BOOLEAN :
        /\ checkStops(e, k)
        /\ state.active
        /\ \E a \in Step, p \in Points :
              LET tKey == clock
                  tPress == tKey + At(p, 1, a)
                  tFlash == tPress + At(p, 2, a)
                  tStamp == tFlash + At(p, 3, a)
              IN  /\ a = 0 => p = 4
                  /\ Finish(mainActive(Machine, tKey, tPress, tFlash, tStamp),
                            e, k, tKey - state.timeLastKeypress,
                            tFlash - state.timeLastFlashed,
                            tStamp + At(p, 4, a))

\* Lines 179, 183, 207-213.
LoopActivate ==
    \E e, k \in BOOLEAN :
        /\ checkStops(e, k)
        /\ ~state.active
        /\ \E s \in Step :
              Finish(mainActivate(Machine, clock), e, k, NoRead, NoRead,
                     clock + s)

\* Lines 179, 215-224.
LoopDeactivate ==
    \E e, k \in BOOLEAN :
        /\ ~checkStops(e, k)
        /\ state.active
        /\ \E s \in Step :
              Finish(mainDeactivate(Machine), e, k, NoRead, NoRead, clock + s)

\* Lines 179, 215-219, 226: nothing to do.
LoopIdle ==
    \E e, k \in BOOLEAN :
        /\ ~checkStops(e, k)
        /\ ~state.active
        /\ \E s \in Step :
              Finish(Machine, e, k, NoRead, NoRead, clock + s)

Init ==
    /\ DISABLE_KEYCYL \in BOOLEAN
    /\ DISABLE_LEDS \in BOOLEAN
    /\ FLASHING_LEDS_ONLY \in BOOLEAN
    /\ clock = 0
    /\ \E e, k \in BOOLEAN :
          pins = [Pins_init EXCEPT !.ESTOP = e, !.KEYCYL = k]
    /\ state = State_init
    /\ keyboard = {}
    /\ last = [triggered |-> FALSE, wasActive |-> FALSE, wasKeyDown |-> FALSE,
               calls |-> <<>>, leds |-> <<>>, keyElapsed |-> NoRead,
               flashElapsed |-> NoRead]
    /\ period = [passes |-> 0, presses |-> 0]

Next ==
    \/ LoopActive
    \/ LoopActivate
    \/ LoopDeactivate
    \/ LoopIdle

Spec == Init /\ [][Next]_vars

\* One pass of the loop during whose sleep (line 228) the clock advances by
\* one tick: the inputs are read, the branch of main() they select runs with
\* every reading of the clock equal, and the sleep ends one tick later.
SleepTick ==
    \E e, k \in BOOLEAN :
        LET read == checkStops(e, k) /\ state.active
            m == IF checkStops(e, k)
                 THEN IF state.active
                      THEN mainActive(Machine, clock, clock, clock, clock)
                      ELSE mainActivate(Machine, clock)
                 ELSE IF state.active
                      THEN mainDeactivate(Machine)
                      ELSE Machine
        IN  Finish(m, e, k,
                   IF read THEN clock - state.timeLastKeypress ELSE NoRead,
                   IF read THEN clock - state.timeLastFlashed ELSE NoRead,
                   clock + 1)

\* Such a pass can be made exactly as long as the clock is followed.
TickEnabled == clock < Horizon
SleepTickEnabled == (ENABLED <<SleepTick>>_vars) <=> TickEnabled

\* Such a pass is a pass of the loop.
SleepTickIsAPass == [][SleepTick => Next]_vars

\* The loop of main() never ends and each pass sleeps 0.01 s, so passes
\* during whose sleep the clock advances keep being made, as far as the
\* clock is followed. This is weak fairness of SleepTick, with its enabling
\* condition written as TickEnabled (SleepTickEnabled is invariant).
Fairness == []<>(~TickEnabled) \/ []<><<SleepTick>>_vars
FairSpec == Init /\ [][Next]_vars /\ Fairness

TypeOK ==
    /\ clock \in 0 .. MaxTime
    /\ state.active \in BOOLEAN
    /\ state.keyDown \in BOOLEAN
    /\ state.timeLastKeypress \in {Sentinel} \cup (0 .. MaxTime)
    /\ state.timeLastFlashed \in {Sentinel} \cup (0 .. MaxTime)
    /\ state.timeActivated \in {Sentinel} \cup (0 .. MaxTime)
    /\ keyboard \subseteq {KEYCODE}

\* ------------------------------------------------ what a pass has done
Pressed(l) == \E i \in 1 .. Len(l.calls) : l.calls[i] = "press"
Released(l) == \E i \in 1 .. Len(l.calls) : l.calls[i] = "release_all"
Toggled(l) ==
    \E i \in 1 .. Len(l.leds) :
        l.leds[i].op = "toggle" /\ l.leds[i].pin = "LED_READY"

\* ------------------------------------------------------------------ C1
\* C1: at every loop-iteration boundary keyDown implies active; the
\* emulated key is never held (in the State record or at the keyboard)
\* while the machine is inactive.
C1_KeyDownImpliesActive ==
    /\ state.keyDown => state.active
    /\ keyboard /= {} => state.active

\* The key is held, in an active period.
C1_Witness ==
    state.keyDown /\ state.active /\ keyboard = {KEYCODE}

\* ------------------------------------------------------------------ C2
\* C2: a pass that starts active with the key down and reads not triggered
\* issues release_all, clears keyDown and clears active, whatever the time
\* elapsed since timeLastKeypress.
C2_ReleaseOnDeactivate ==
    [][(state.active /\ state.keyDown /\ ~last'.triggered)
         => (Released(last') /\ ~state'.keyDown /\ ~state'.active
             /\ keyboard' = {})]_vars

\* The stop cleared while the key was down and less than DWELL after the
\* press: the key has been released in that pass.
C2_Witness ==
    /\ last.wasActive /\ last.wasKeyDown /\ ~last.triggered
    /\ Released(last) /\ ~state.keyDown
    /\ clock - state.timeLastKeypress < DWELL

\* ------------------------------------------------------------------ C3
\* C3 as stated: from inactive with button and cylinder both reading safe,
\* when the button goes low, the pass in which the state becomes active is
\* also the pass that issues the first key press.
C3_PressInTransitionPass ==
    [][(~state.active /\ pins.ESTOP /\ pins.KEYCYL /\ ~pins'.ESTOP)
         => (state'.active /\ Pressed(last'))]_vars

\* C3 as amended: from inactive with button and cylinder both reading safe,
\* when the button goes low, the pass in which the state becomes active
\* issues no call to the keyboard; the first key press is issued by the
\* pass that follows it, if that pass reads triggered too.
C3_PressInPassAfterTransition ==
    [][/\ (~state.active /\ pins.ESTOP /\ pins.KEYCYL /\ ~pins'.ESTOP)
            => (state'.active /\ last'.calls = <<>> /\ ~state'.keyDown
                /\ period'.passes = 1 /\ period'.presses = 0)
       /\ (period.passes = 1 /\ last'.triggered)
            => (last'.calls = <<"press">> /\ state'.keyDown
                /\ period'.presses = 1)]_vars

\* The button went low from the all-safe reading, and the second pass of
\* the active period has sent the first key press of the period.
C3_Witness ==
    /\ period.passes = 2 /\ period.presses = 1
    /\ last.calls = <<"press">>
    /\ state.keyDown
    /\ ~pins.ESTOP /\ pins.KEYCYL

\* ------------------------------------------------------------------ C4
\* C4 as stated: a transition from not triggered to triggered always
\* results in a key press, also when the trigger is seen by one poll only:
\* whenever an active period ends, a press has been issued in it.
C4_EveryTriggerPresses ==
    (last.wasActive /\ ~state.active) => period.presses > 0

\* C4 as amended: a transition from not triggered to triggered results in a
\* key press in the pass after the transition pass, provided that pass
\* reads triggered too; a trigger that is seen by one poll only and then
\* clears results in no key press.
C4_TriggerPressesIfHeld ==
    [][/\ (period.passes = 1 /\ last'.triggered)
            => (Pressed(last') /\ keyboard' = {KEYCODE})
       /\ (period.passes = 1 /\ ~last'.triggered)
            => (~Pressed(last') /\ period'.presses = 0 /\ keyboard' = {})]_vars

\* A trigger has been seen by exactly one poll: the active period ended in
\* its second pass, without a key press.
C4_Witness ==
    /\ last.wasActive /\ ~last.triggered /\ ~state.active
    /\ period.presses = 0
    /\ state.timeLastKeypress = Sentinel

\* ------------------------------------------------------------------ C5
\* C5: in a pass that starts active with the key up and reads triggered, a
\* press is issued exactly when the clock minus timeLastKeypress is at
\* least DELAY (equality presses); so a press that follows another press
\* of the same active period comes at least DELAY after it.
C5_RepeatInterval ==
    [][(state.active /\ ~state.keyDown /\ last'.triggered)
         => /\ Pressed(last') <=> (clock - state.timeLastKeypress >= DELAY)
            /\ (Pressed(last') /\ period.presses > 0)
                 => (state.timeLastKeypress >= 0
                     /\ state'.timeLastKeypress - state.timeLastKeypress
                          >= DELAY)
            /\ ~Pressed(last')
                 => /\ keyboard' = keyboard
                    /\ ~state'.keyDown
                    /\ state'.timeLastKeypress = state.timeLastKeypress]_vars

\* The second press of an active period has been sent, exactly DELAY after
\* the first.
C5_Witness ==
    /\ last.wasActive /\ last.triggered /\ ~last.wasKeyDown
    /\ Pressed(last)
    /\ period.presses >= 2
    /\ last.keyElapsed = DELAY

\* ------------------------------------------------------------------ C6
\* C6: in a pass that starts active with the key down and reads triggered,
\* release_all is issued exactly when the clock minus timeLastKeypress is
\* at least DWELL (equality releases).
C6_DwellRelease ==
    [][(state.active /\ state.keyDown /\ last'.triggered)
         => /\ Released(last') <=> (clock - state.timeLastKeypress >= DWELL)
            /\ state'.keyDown <=> (clock - state.timeLastKeypress < DWELL)
            /\ ~Pressed(last')]_vars

\* The key has been released by a triggered pass exactly DWELL after the
\* press.
C6_Witness ==
    /\ last.wasActive /\ last.triggered /\ last.wasKeyDown
    /\ Released(last) /\ ~state.keyDown
    /\ last.keyElapsed = DWELL

\* ------------------------------------------------------------------ C7
\* C7: the ready LED is toggled in a pass exactly when the pass starts
\* active, reads triggered and finds the clock minus timeLastFlashed at
\* least FLASHTIME; a pass that starts inactive or reads not triggered
\* toggles nothing and leaves timeLastFlashed alone.
C7_FlashToggle ==
    [][/\ Toggled(last') <=> (/\ state.active
                              /\ last'.triggered
                              /\ last'.flashElapsed >= FLASHTIME)
       /\ (state.active /\ last'.triggered)
            => last'.flashElapsed + state.timeLastFlashed
                 \in clock .. clock + MaxStep
       /\ ~Toggled(last')
            => state'.timeLastFlashed = state.timeLastFlashed
       /\ (Toggled(last') /\ ~DISABLE_LEDS)
            => pins'.LED_READY = ~pins.LED_READY]_vars

\* The ready LED has been toggled exactly FLASHTIME after the last toggle.
C7_Witness ==
    /\ Toggled(last)
    /\ last.flashElapsed = FLASHTIME
    /\ state.timeLastFlashed >= FLASHTIME

\* ------------------------------------------------------------------ C8
\* C8: with DISABLE_LEDS set, the start and the ready LED are off in every
\* reachable state, whatever FLASHING_LEDS_ONLY is and whatever the loop
\* asked of setPin and togglePin.
C8_LedsDisabled ==
    DISABLE_LEDS => (~pins.LED_START /\ ~pins.LED_READY)

\* With the LEDs disabled, a pass has asked for the start LED to be lit and
\* toggled the ready LED.
C8_Witness ==
    /\ DISABLE_LEDS
    /\ Toggled(last)
    /\ \E i \in 1 .. Len(last.leds) :
          last.leds[i].op = "set" /\ last.leds[i].arg
    /\ ~pins.LED_START /\ ~pins.LED_READY

\* ------------------------------------------------------------------ C9
\* C9: with FLASHING_LEDS_ONLY set and DISABLE_LEDS clear, setPin(pin, True)
\* leaves the pin off whatever its level was, and togglePin(pin) on a pin
\* that is off turns it on.
C9_FlashingOnly ==
    (FLASHING_LEDS_ONLY /\ ~DISABLE_LEDS)
      => /\ \A i \in 1 .. Len(last.leds) :
              /\ (last.leds[i].op = "set" /\ last.leds[i].arg)
                   => ~last.leds[i].after
              /\ (last.leds[i].op = "toggle" /\ ~last.leds[i].before)
                   => last.leds[i].after
         /\ \A v \in BOOLEAN : ~setPin(v, TRUE)
         /\ togglePin(FALSE)
         /\ Released(last) => ~pins.LED_START

\* In flashing-only mode the ready LED was on (a toggle had lit it) when
\* the stop cleared, and setPin(LED_READY, True) has put it off.
C9_Witness ==
    /\ FLASHING_LEDS_ONLY /\ ~DISABLE_LEDS
    /\ \E i \in 1 .. Len(last.leds) :
          /\ last.leds[i].op = "set" /\ last.leds[i].arg
          /\ last.leds[i].pin = "LED_READY"
          /\ last.leds[i].before /\ ~last.leds[i].after
    /\ ~pins.LED_READY

\* ----------------------------------------------------------------- C10
\* C10: for every level of the button and of the cylinder and every value
\* of DISABLE_KEYCYL, checkStops() returns
\* NOT(button AND (cylinder OR DISABLE_KEYCYL)); with DISABLE_KEYCYL set it
\* is NOT button for both levels of the cylinder; and a pass in which
\* checkStops() is the only thing that runs changes nothing.
C10_CheckStops ==
    [][/\ last'.triggered
            = ~(pins'.ESTOP /\ (pins'.KEYCYL \/ DISABLE_KEYCYL))
       /\ state'.active = last'.triggered
       /\ DISABLE_KEYCYL
            => /\ last'.triggered = ~pins'.ESTOP
               /\ \A c \in BOOLEAN : checkStops(pins'.ESTOP, c) = ~pins'.ESTOP
       /\ (~state.active /\ ~last'.triggered)
            => /\ UNCHANGED <<state, keyboard>>
               /\ pins'.LED_START = pins.LED_START
               /\ pins'.LED_READY = pins.LED_READY]_vars

\* With the cylinder ignored, a pass has read the button safe and the
\* cylinder locked, found the stop not triggered and left the active state.
C10_Witness ==
    /\ DISABLE_KEYCYL
    /\ pins.ESTOP /\ ~pins.KEYCYL
    /\ ~last.triggered /\ last.wasActive /\ ~state.active

\* ----------------------------------------------------------------- C11
\* The settings under which setPin and togglePin do what they are asked:
\* LEDs enabled and not restricted to flashing.
LedsPlain == ~DISABLE_LEDS /\ ~FLASHING_LEDS_ONLY

\* C11: with the LEDs enabled and FLASHING_LEDS_ONLY clear, whenever the
\* emulated key is down the start LED is lit.
C11_StartLitWhileKeyDown ==
    (LedsPlain /\ state.keyDown) => pins.LED_START

\* ----------------------------------------------------------------- C12
\* C12: with the LEDs enabled and FLASHING_LEDS_ONLY clear, at every
\* loop-iteration boundary where the machine is inactive the ready LED is
\* lit: at startup, and after the pass that leaves the active state,
\* whichever level the flashing had left the LED at.
C12_ReadyLitWhileInactive ==
    (LedsPlain /\ ~state.active) => pins.LED_READY

\* The stop cleared while the flashing had the ready LED off, and the pass
\* that left the active state has lit it again.
C12_Witness ==
    /\ LedsPlain
    /\ last.wasActive /\ ~state.active
    /\ \E i \in 1 .. Len(last.leds) :
          /\ last.leds[i].pin = "LED_READY" /\ last.leds[i].op = "set"
          /\ ~last.leds[i].before /\ last.leds[i].after
    /\ pins.LED_READY

\* ----------------------------------------------------------------- C13
\* C13 as stated: timeLastKeypress changes only in a pass that issues a key
\* press, and timeLastFlashed changes only in a pass that toggles the
\* ready LED.
C13_StampsOnlyWithAction ==
    [][/\ state'.timeLastKeypress /= state.timeLastKeypress
            => Pressed(last')
       /\ state'.timeLastFlashed /= state.timeLastFlashed
            => Toggled(last')]_vars

\* C13 as amended: timeLastKeypress changes only in a pass that issues a
\* key press, which stamps it with the clock, or in the pass that enters
\* the active state, which resets it to the sentinel; timeLastFlashed
\* changes only in a pass that toggles the ready LED.
C13_StampsOnlyWithActionOrReset ==
    [][/\ state'.timeLastKeypress /= state.timeLastKeypress
            => \/ /\ Pressed(last')
                  /\ state'.timeLastKeypress \in clock .. clock + MaxStep
               \/ /\ ~state.active /\ state'.active
                  /\ state'.timeLastKeypress = Sentinel
                  /\ ~Pressed(last')
       /\ state'.timeLastFlashed /= state.timeLastFlashed
            => /\ Toggled(last')
               /\ state'.timeLastFlashed \in clock .. clock + MaxStep
       /\ Pressed(last') => state'.timeLastKeypress >= clock
       /\ Toggled(last') => state'.timeLastFlashed >= clock]_vars

\* The active state has been entered again after a key press of an earlier
\* active period: timeLastKeypress went back to the sentinel in a pass that
\* pressed nothing, while the stamp of the flashing was left alone.
C13_Witness ==
    /\ ~last.wasActive /\ state.active
    /\ last.calls = <<>>
    /\ state.timeLastKeypress = Sentinel
    /\ state.timeLastFlashed >= 0

\* ----------------------------------------------------------------- C15
\* C15: the pass that follows the pass entering the active state, if it
\* reads triggered, issues a key press however little time has passed
\* since the previous press: after the entry timeLastKeypress is the
\* sentinel, so the difference compared at line 197 is at least DELAY.
C15_PromptPressOnRetrigger ==
    [][(period.passes = 1 /\ last'.triggered)
         => /\ state.timeLastKeypress = Sentinel
            /\ last'.keyElapsed = clock - Sentinel
            /\ last'.keyElapsed >= DELAY
            /\ Pressed(last')
            /\ state'.timeLastKeypress >= clock]_vars

\* Less than DELAY after boot the active state was entered a second time
\* and the pass after the entry has pressed the key.  The flashing has a
\* stamp that this pass did not write (and the entry pass writes none), so
\* an earlier active period had an already-active pass, whose first one
\* pressed the key: that press was less than DELAY ago.
C15_Witness ==
    /\ period.passes = 2 /\ Pressed(last)
    /\ ~Toggled(last)
    /\ state.timeLastFlashed >= 0
    /\ clock < DELAY

\* ----------------------------------------------------------------- C16
\* C16: the pass that starts inactive and reads triggered sets active,
\* stamps timeActivated with the clock and resets timeLastKeypress to the
\* sentinel; keyDown, timeLastFlashed and both LEDs keep their values, and
\* neither the keyboard nor the LED driver is called.
C16_ActivateFrame ==
    [][(~state.active /\ last'.triggered)
         => /\ state' = [state EXCEPT !.active = TRUE,
                                      !.timeActivated = clock,
                                      !.timeLastKeypress = Sentinel]
            /\ state'.keyDown = state.keyDown
            /\ state'.timeLastFlashed = state.timeLastFlashed
            /\ pins'.LED_START = pins.LED_START
            /\ pins'.LED_READY = pins.LED_READY
            /\ keyboard' = keyboard
            /\ last'.calls = <<>>
            /\ last'.leds = <<>>]_vars

\* The active state has been entered at a time after boot, with stamps of
\* an earlier active period: timeActivated is the clock of the entry, the
\* stamp of the last key press is gone, the stamp of the flashing is kept.
C16_Witness ==
    /\ period.passes = 1 /\ last.triggered /\ ~last.wasActive
    /\ state.active /\ ~state.keyDown
    /\ state.timeActivated > 0
    /\ state.timeLastFlashed >= 0 /\ state.timeLastFlashed < state.timeActivated
    /\ state.timeLastKeypress = Sentinel
    /\ last.leds = <<>>

\* ----------------------------------------------------------------- C17
\* C17: with FLASHING_LEDS_ONLY set and DISABLE_LEDS clear, the start LED
\* is off in every reachable state, and the ready LED is off at every
\* loop-iteration boundary where the machine is inactive: it is on only
\* while the machine is active.
C17_FlashingOnlyLeds ==
    (FLASHING_LEDS_ONLY /\ ~DISABLE_LEDS)
      => /\ ~pins.LED_START
         /\ ~state.active => ~pins.LED_READY
         /\ pins.LED_READY => state.active

\* In flashing-only mode the flashing has the ready LED on, in the active
\* state, after a release of the key has asked for the start LED.
C17_Witness ==
    /\ FLASHING_LEDS_ONLY /\ ~DISABLE_LEDS
    /\ state.active /\ pins.LED_READY /\ ~pins.LED_START
    /\ Released(last)

C19_PressOnlyWhenUp ==
    [][/\ Pressed(last')
            => /\ ~state.keyDown
               /\ keyboard = {}
               /\ ~Released(last')
               /\ last'.calls = <<"press">>
       /\ Len(last'.calls) <= 1
       /\ (keyboard /= {}) = state.keyDown]_vars

\* A press has followed an earlier press of the same active period, the
\* key having been released in between.
C19_Witness ==
    /\ last.calls = <<"press">> /\ ~last.wasKeyDown
    /\ keyboard = {KEYCODE} /\ state.keyDown
    /\ period.presses >= 2

\* ----------------------------------------------------------------- C14
\* C14: while the loop keeps running and the clock keeps advancing, the
\* first key press of an active period is followed by a second one unless
\* the inputs stop reading triggered first: the presses go on, one per
\* DELAY (stated for the presses that leave DELAY and one pass before the
\* end of the time followed).
C14_PressesRepeat ==
    (/\ state.active /\ period.presses = 1
     /\ state.timeLastKeypress + DELAY + MaxStep <= Horizon)
      ~> (~state.active \/ period.presses >= 2)

\* With the inputs reading triggered all along, a key press has been sent
\* DELAY or more after the previous one of the same active period.
C14_Witness ==
    /\ last.triggered /\ Pressed(last)
    /\ period.presses >= 2
    /\ state.timeLastKeypress >= DELAY
    /\ DWELL < DELAY

\* ----------------------------------------------------------------- C20
\* C20: while the loop keeps running and the clock keeps advancing, every
\* state with the key down is followed by a state with the key up, whatever
\* the inputs read: by the dwell test once DWELL has elapsed or by the pass
\* that leaves the active state (stated for the presses that leave DWELL
\* and one pass before the end of the time followed).
C20_KeyEventuallyReleased ==
    (state.keyDown /\ state.timeLastKeypress + DWELL + MaxStep <= Horizon)
      ~> (~state.keyDown /\ keyboard = {})

\* The key was down and a pass has released it, DWELL or more after the
\* press.
C20_Witness ==
    /\ last.wasKeyDown /\ Released(last)
    /\ ~state.keyDown /\ keyboard = {}
    /\ last.keyElapsed >= DWELL
====
